---- MODULE Spec2Model ----
(***************************************************************************)
(* Model of the deep-research session orchestrator of OpenDeepSearch:      *)
(* DeepResearchTool (start / status / continue / report), the helpers it   *)
(* calls (analyzeQuestion, performSearch, analyzeResults,                  *)
(* synthesizeReport) and the two ways a call reaches a tool instance (a    *)
(* registered, shared instance, or WebSocketMCPServer.callDeepResearch).   *)
(*                                                                         *)
(* Text is modelled as a sequence of word tokens; "?" is a token of its    *)
(* own.  Every await of the source is a point where another invocation     *)
(* may run, so each handler is cut into one action per synchronous         *)
(* segment.                                                                *)
(***************************************************************************)
EXTENDS Integers, Sequences, FiniteSets, TLC

(***************************************************************************)
(* Bounds of the model.                                                    *)
(***************************************************************************)
\* start calls issued in one behaviour
MaxStarts == 1

\* invocations that can be in flight together
MaxCalls == 2

\* ticks of the wall clock
MaxTime == 1

\* continue calls sent for the ids start has returned
MaxContinues == 3

\* start calls issued in one behaviour of the two-research specification
MaxSessions == 2

\* sub-questions in a list handed to synthesizeReport on its own
MaxListLen == 2

\* the longest result list handed to analyzeResults on its own
MaxResults == 6

\* the longest query, in characters, handed to a search tool
MaxQueryChars == 401

(***************************************************************************)
(* Text helpers.                                                           *)
(***************************************************************************)
Min(a, b) == IF a < b THEN a ELSE b

Max(a, b) == IF a > b THEN a ELSE b

\* String.prototype.toLowerCase on one word
Lower(w) ==
    CASE w = "Compare" -> "compare"
      [] w = "What" -> "what"
      [] OTHER -> w

\* words of at most two characters (word.length > 2 is false for them)
ShortWords == {"is", "of", "or", "vs", "to", "a", "an", "?"}

\* text.replace(/\?/g, '').trim()
StripQuestionMarks(text) == SelectSeq(text, LAMBDA w : w # "?")

RECURSIVE Dedupe(_, _)
\* Array.from(new Set(list)): first occurrences, in order
Dedupe(list, seen) ==
    IF list = <<>> THEN <<>>
    ELSE IF Head(list) \in seen THEN Dedupe(Tail(list), seen)
    ELSE <<Head(list)>> \o Dedupe(Tail(list), seen \cup {Head(list)})

\* Array.prototype.slice(0, n): a negative n counts from the end
Slice0(list, n) ==
    IF n >= 0 THEN SubSeq(list, 1, Min(n, Len(list)))
    ELSE SubSeq(list, 1, Max(Len(list) + n, 0))

(***************************************************************************)
(* Question decomposer (utils/question).                                   *)
(***************************************************************************)
conjunctions ==
    << <<"and">>, <<"or">>, <<"versus">>, <<"vs">>, <<"compared", "to">>,
       <<"differences", "between">> >>

\* the connector words that occur inside a word as a substring
SubstringsOf(w) == {w} \cup (IF w = "history" THEN {"or"} ELSE {})

\* cleanQuestion.toLowerCase().includes(conj)
Includes(text, conj) ==
    \E i \in 1..Len(text) :
        /\ i + Len(conj) - 1 <= Len(text)
        /\ \A j \in 1..Len(conj) :
              IF Len(conj) = 1
              THEN conj[j] \in SubstringsOf(Lower(text[i + j - 1]))
              ELSE conj[j] = Lower(text[i + j - 1])

SplitWords == {"and", "or", "versus", "vs"}

RECURSIVE SplitParts(_, _, _)
\* cleanQuestion.split(/\s+(?:and|or|versus|vs|compared to)\s+/i): a connector
\* separates only with text on both sides, and the whitespace a match takes
\* cannot serve the next match
SplitParts(text, i, cur) ==
    IF i > Len(text) THEN <<cur>>
    ELSE IF cur # <<>> /\ i < Len(text) /\ Lower(text[i]) \in SplitWords
    THEN <<cur>> \o SplitParts(text, i + 2, <<text[i + 1]>>)
    ELSE IF /\ cur # <<>>
            /\ i + 1 < Len(text)
            /\ Lower(text[i]) = "compared"
            /\ Lower(text[i + 1]) = "to"
    THEN <<cur>> \o SplitParts(text, i + 3, <<text[i + 2]>>)
    ELSE SplitParts(text, i + 1, Append(cur, text[i]))

QuestionWords ==
    {"what", "who", "when", "where", "why", "how", "is", "are", "do", "does",
     "did", "can", "could", "would", "should", "will"}

Articles == {"the", "a", "an"}

\* one leading word of the set, followed by whitespace, is removed
StripLeading(text, words) ==
    IF Len(text) >= 2 /\ Lower(text[1]) \in words THEN Tail(text) ELSE text

\* a topic that is never found: C25 depends on the topic
NoTopic(question) == <<>>

\* extractMainTopic of utils/question: the empty sequence stands for null
extractMainTopic(question) ==
    StripLeading(StripLeading(question, QuestionWords), Articles)

analyzeQuestion(question) ==
    LET cleanQuestion == StripQuestionMarks(question)
        hasConjunction ==
            \E k \in 1..Len(conjunctions) : Includes(cleanQuestion, conjunctions[k])
        parts == SplitParts(cleanQuestion, 1, <<>>)
        mainTopic == extractMainTopic(cleanQuestion)
        subQuestions ==
            <<question>> \o
            (IF mainTopic # <<>>
             THEN << <<"What", "is">> \o mainTopic \o <<"?">>,
                     <<"What", "are", "the", "key", "features", "of">>
                         \o mainTopic \o <<"?">>,
                     <<"What", "are", "the", "applications", "of">>
                         \o mainTopic \o <<"?">> >>
             ELSE <<>>)
    IN  IF hasConjunction /\ Len(parts) > 1
        THEN [k \in 1..Len(parts) |-> Append(parts[k], "?")]
        ELSE Dedupe(subQuestions, {})

(***************************************************************************)
(* Search invoker and relevance scoring (utils/search).                    *)
(***************************************************************************)
RECURSIVE SplitWhitespace(_)
\* text.split(/\s+/): a "?" is written against the word before it, so it is
\* part of that word
SplitWhitespace(text) ==
    IF text = <<>> THEN <<>>
    ELSE IF Len(text) >= 2 /\ text[2] = "?" /\ text[1] # "?"
    THEN << <<text[1], "?">> >> \o SplitWhitespace(SubSeq(text, 3, Len(text)))
    ELSE << <<text[1]>> >> \o SplitWhitespace(Tail(text))

\* a filter that keeps every word: C23 depends on the filter of line 84
AnyLength(word) == TRUE

\* word.length > 2
LongerThanTwo(word) ==
    \/ word[1] \notin ShortWords
    \/ Len(word) = 2 /\ word[1] # "a"

\* normalizedText.includes(word), both lowercased
TextIncludes(text, word) ==
    \E i \in 1..Len(text) :
        /\ Lower(word[1]) \in SubstringsOf(Lower(text[i]))
        /\ Len(word) = 2 => (i < Len(text) /\ text[i + 1] = "?")

\* the score is the fraction num / den, kept as a pair
calculateRelevance(query, title, description) ==
    LET words == SplitWhitespace(query)
        queryWords == SelectSeq(words, LongerThanTwo)
        titleMatches ==
            Cardinality({k \in 1..Len(queryWords) : TextIncludes(title, queryWords[k])})
        descriptionMatches ==
            Cardinality({k \in 1..Len(queryWords) :
                            TextIncludes(description, queryWords[k])})
        maxPossibleScore == Len(queryWords) * 4
        actualScore == (titleMatches * 3) + descriptionMatches
    IN  IF maxPossibleScore > 0
        THEN [num |-> actualScore, den |-> maxPossibleScore]
        ELSE [num |-> 0, den |-> 1]

\* what the search collaborator can answer to one request
RawA == [title |-> <<"solar", "energy">>, url |-> "u1",
         description |-> <<"solar", "power">>]

RawB == [title |-> <<"wind", "energy">>, url |-> "u2",
         description |-> <<"wind", "and", "solar">>]

RawNoTitle == [url |-> "u3", description |-> <<"quantum">>]

Replies ==
    { [kind |-> "network error"],
      [kind |-> "no body"],
      [kind |-> "results", results |-> <<RawA, RawB>>],
      [kind |-> "results", results |-> <<RawNoTitle>>] }

\* performSearch after the collaborator has answered: the result list, or the
\* error it throws
performSearch(query, reply) ==
    IF reply.kind = "network error"
    THEN [ok |-> FALSE, error |-> "Failed to perform search: network error"]
    ELSE IF reply.kind \in {"no body", "no web section", "no results list"}
    THEN [ok |-> TRUE, results |-> <<>>]
    ELSE IF \E k \in 1..Len(reply.results) :
                {"title", "description"} \ DOMAIN reply.results[k] # {}
    THEN [ok |-> FALSE, error |-> "Failed to perform search: TypeError"]
    ELSE [ok |-> TRUE,
          results |->
              [k \in 1..Len(reply.results) |->
                  [title |-> reply.results[k].title,
                   url |-> reply.results[k].url,
                   description |-> reply.results[k].description,
                   relevance |-> calculateRelevance(query, reply.results[k].title,
                                                    reply.results[k].description)]]]

(***************************************************************************)
(* Result analyzer (utils/analysis).                                       *)
(***************************************************************************)
\* result.relevance ?? 0
RelevanceOf(result) ==
    IF "relevance" \in DOMAIN result THEN result.relevance ELSE [num |-> 0, den |-> 1]

\* a comparator that puts a result before the ones of equal relevance: C39
\* depends on the order of ties
NotLessRelevant(b, a) ==
    RelevanceOf(b).num * RelevanceOf(a).den >= RelevanceOf(a).num * RelevanceOf(b).den

\* relevanceB - relevanceA > 0: b sorts before a
MoreRelevant(b, a) ==
    RelevanceOf(b).num * RelevanceOf(a).den > RelevanceOf(a).num * RelevanceOf(b).den

RECURSIVE InsertSorted(_, _)
InsertSorted(sorted, r) ==
    IF sorted = <<>> THEN <<r>>
    ELSE IF MoreRelevant(r, Head(sorted)) THEN <<r>> \o sorted
    ELSE <<Head(sorted)>> \o InsertSorted(Tail(sorted), r)

RECURSIVE SortByRelevance(_)
\* [...results].sort((a, b) => relevanceB - relevanceA), a stable sort
SortByRelevance(results) ==
    IF results = <<>> THEN <<>>
    ELSE InsertSorted(SortByRelevance(SubSeq(results, 1, Len(results) - 1)),
                      results[Len(results)])

TopCount == 5

\* an analyzer that has nothing to say: C36 depends on the message of line 18
AnalyzeNothing(results, query) == <<>>

\* the descriptions of the model hold one sentence, which
\* selectRelevantSentences returns as it is
analyzeResults(results, query) ==
    IF Len(results) = 0
    THEN [kind |-> "No results found for query", query |-> query]
    ELSE LET sortedResults == SortByRelevance(results)
             topResults == Slice0(sortedResults, TopCount)
         IN  [kind |-> "Analysis for query",
              query |-> query,
              points |-> [k \in 1..Len(topResults) |->
                             [title |-> topResults[k].title,
                              keyInfo |-> topResults[k].description,
                              url |-> topResults[k].url]],
              used |-> Len(topResults)]

(***************************************************************************)
(* Report synthesizer (utils/synthesis).                                   *)
(***************************************************************************)
Has(obj, field) == field \in DOMAIN obj

\* extractMainTopic of utils/synthesis: falls back to the question itself
extractReportTopic(question) ==
    IF extractMainTopic(question) # <<>> THEN extractMainTopic(question) ELSE question

generateSection(sq) ==
    LET searchResults == IF Has(sq, "searchResults") THEN sq.searchResults ELSE <<>>
    IN  [title |-> StripQuestionMarks(sq.question),
         body |-> sq.analysis,
         citations |-> [k \in 1..Len(searchResults) |->
                           [n |-> k, title |-> searchResults[k].title,
                            url |-> searchResults[k].url]]]

RECURSIVE CollectEvery(_, _)
\* the same without the check of line 146: C22 depends on the check
CollectEvery(results, seen) ==
    IF results = <<>> THEN <<>>
    ELSE <<[title |-> Head(results).title, url |-> Head(results).url]>>
         \o CollectEvery(Tail(results), seen)

RECURSIVE CollectSources(_, _)
\* the (title, url) pairs of a result list whose url is not yet in seen
CollectSources(results, seen) ==
    IF results = <<>> THEN <<>>
    ELSE IF Head(results).url \in seen THEN CollectSources(Tail(results), seen)
    ELSE <<[title |-> Head(results).title, url |-> Head(results).url]>>
         \o CollectSources(Tail(results), seen \cup {Head(results).url})

RECURSIVE AllResults(_)
AllResults(subQuestions) ==
    IF subQuestions = <<>> THEN <<>>
    ELSE (IF Has(Head(subQuestions), "searchResults")
          THEN Head(subQuestions).searchResults ELSE <<>>)
         \o AllResults(Tail(subQuestions))

generateSources(subQuestions) == CollectSources(AllResults(subQuestions), {})

\* the same without the check of lines 17-19: C21 depends on the check
synthesizeReportUnchecked(mainQuestion, subQuestions) ==
    LET completedSubQuestions ==
            SelectSeq(subQuestions,
                      LAMBDA sq : /\ sq.status = "completed"
                                  /\ Has(sq, "analysis")
                                  /\ sq.analysis # <<>>)
    IN  IF Len(completedSubQuestions) = 0
        THEN [kind |-> "Research is still in progress for question",
              question |-> mainQuestion]
        ELSE [kind |-> "Research Report",
              question |-> mainQuestion,
              sections |-> [k \in 1..Len(completedSubQuestions) |->
                               generateSection(completedSubQuestions[k])],
              topic |-> extractReportTopic(mainQuestion),
              count |-> Len(completedSubQuestions),
              sources |-> generateSources(completedSubQuestions)]

synthesizeReport(mainQuestion, subQuestions) ==
    LET completedSubQuestions ==
            SelectSeq(subQuestions,
                      LAMBDA sq : /\ sq.status = "completed"
                                  /\ Has(sq, "analysis")
                                  /\ sq.analysis # <<>>)
    IN  IF Len(subQuestions) = 0
        THEN [kind |-> "No research data available for question",
              question |-> mainQuestion]
        ELSE IF Len(completedSubQuestions) = 0
        THEN [kind |-> "Research is still in progress for question",
              question |-> mainQuestion]
        ELSE [kind |-> "Research Report",
              question |-> mainQuestion,
              sections |-> [k \in 1..Len(completedSubQuestions) |->
                               generateSection(completedSubQuestions[k])],
              topic |-> extractReportTopic(mainQuestion),
              count |-> Len(completedSubQuestions),
              sources |-> generateSources(completedSubQuestions)]

(***************************************************************************)
(* State.                                                                  *)
(***************************************************************************)
VARIABLES
    researches,  \* researches[t]: the Map of tool instance t, id -> ResearchData
    calls,       \* the execute invocations suspended at an await
    last,        \* the invocation that has just finished, with its outcome, on
                 \* its way to the caller
    uuids,       \* how many research ids uuidv4() has returned
    now,         \* Date.now()
    continues,   \* per id the caller got back from start: continue calls sent
    pure         \* a helper called on its own: its arguments and what it returned

vars == <<researches, calls, last, uuids, now, continues, pure>>

\* no helper is being called on its own
NoCall == [fn |-> "none"]

\* instance 0 is the registered tool; instance k is the one callDeepResearch
\* created for the start call that made research k, which nothing refers to
\* once that call has ended
Tools == 0..Max(MaxStarts, MaxSessions)

Vias == {"registered", "transport"}

\* a researchId that no uuidv4() call has returned
UnknownId == 0

\* no outcome is on its way to a caller
None == [pc |-> "none"]

\* the ids start has returned to a caller
KnownIds == DOMAIN continues

Compare == <<"Compare", "solar", "and", "wind", "energy">>

WhatIs == <<"What", "is", "quantum", "computing">>

StartRequests ==
    { [query |-> Compare],
      [action |-> "start", query |-> WhatIs, maxSubQuestions |-> 1],
      [action |-> "start", query |-> Compare, maxSubQuestions |-> -2],
      [query |-> Compare, maxSubQuestions |-> 0],
      [action |-> "start", query |-> <<>>, researchId |-> UnknownId],
      [action |-> "start", researchId |-> UnknownId] }

OtherRequests ==
    [action : {"status", "continue", "report", "summary"},
     researchId : 0..MaxStarts]
    \cup { [action |-> "continue"] }

Requests == StartRequests \cup OtherRequests

\* what callers send through callDeepResearch
TransportRequests ==
    { [query |-> Compare] }
    \cup [action : {"status", "continue", "report"}, researchId : 1..MaxStarts]

Init ==
    /\ researches = [t \in Tools |-> <<>>]
    /\ calls = {}
    /\ last = None
    /\ uuids = 0
    /\ now = 0
    /\ continues = <<>>
    /\ pure = NoCall

(***************************************************************************)
(* DeepResearchTool.execute: validation and dispatch.                      *)
(***************************************************************************)
Truthy(params, field) ==
    Has(params, field) /\ (field = "query" => params.query # <<>>)

ActionOf(params) == IF Has(params, "action") THEN params.action ELSE "start"

\* the Map of the tool an arriving call runs on: callDeepResearch builds a
\* new tool, with an empty Map, for every call
StoreOf(via) == IF via = "transport" THEN <<>> ELSE researches[0]

\* the instance a start call puts its research in
ToolOf(via) == IF via = "transport" THEN uuids + 1 ELSE 0

\* one Map behind every instance, cleared with the instance: C20 depends on
\* each instance owning its Map
ReleaseAll(t, stores) == [x \in Tools |-> <<>>]

\* the stores once the call that ran on instance t has ended
Release(t, stores) == IF t = 0 THEN stores ELSE [stores EXCEPT ![t] = <<>>]

\* a call arrives, naming an id its caller can name
Arrives(via, params) ==
    /\ last = None
    /\ Cardinality(calls) < MaxCalls
    /\ via = "transport" => params \in TransportRequests
    /\ Has(params, "researchId") => params.researchId \in KnownIds \cup {UnknownId}

Dispatched(via, params, action) ==
    /\ Arrives(via, params)
    /\ Truthy(params, "query") \/ Truthy(params, "researchId")
    /\ ActionOf(params) = action

\* the frame of an invocation: how it came in and with what
Frame(via, params) == [via |-> via, params |-> params]

\* an invocation that has finished, with what execute gave its caller
Done(call, resp) ==
    [pc |-> "done", via |-> call.via, params |-> call.params, resp |-> resp]

Success(result) == [status |-> "success", result |-> result]

Failure(error) == [status |-> "error", error |-> error]

\* the promise execute returned is rejected: the awaited helper threw, and
\* execute returns the handler's promise without awaiting it
Rejected(error) == [rejected |-> error]

HasResearch(via, params) ==
    Has(params, "researchId") /\ params.researchId \in DOMAIN StoreOf(via)

ExecuteInvalid(via, params) ==
    /\ Arrives(via, params)
    /\ ~(Truthy(params, "query") \/ Truthy(params, "researchId"))
    /\ last' = Done(Frame(via, params), Failure("Either query or researchId is required"))
    /\ UNCHANGED <<researches, calls, uuids, now, continues, pure>>

ExecuteUnknownAction(via, params) ==
    /\ Arrives(via, params)
    /\ Truthy(params, "query") \/ Truthy(params, "researchId")
    /\ ActionOf(params) \notin {"start", "status", "continue", "report"}
    /\ last' = Done(Frame(via, params), Failure("Invalid action"))
    /\ UNCHANGED <<researches, calls, uuids, now, continues, pure>>

(***************************************************************************)
(* startResearch.                                                          *)
(***************************************************************************)
\* a step appended to the log of research id as its n-th entry
Step(id, n, type, content) ==
    [id |-> <<id, "step", n>>, type |-> type, content |-> content, timestamp |-> now]

Content(text, about) == [text |-> text, about |-> about]

\* `${params.query}` of a missing query
Undefined == <<"undefined">>

QueryOf(params) == IF Has(params, "query") THEN params.query ELSE Undefined

\* a generator that returns its last value again: C14 depends on fresh ids
StaleUuid == Max(uuids, 1)

\* uuidv4() for a research id: a value not returned before
uuidv4 == uuids + 1

\* up to the await of analyzeQuestion, which has run (or thrown) by then
startResearch(via, params) ==
    /\ Dispatched(via, params, "start")
    /\ LET researchId == uuidv4
           step == Step(researchId, 1, "question_analysis",
                        Content("Analyzing question", QueryOf(params)))
           research == [id |-> researchId,
                        question |-> QueryOf(params),
                        subQuestions |-> <<>>,
                        steps |-> <<step>>,
                        status |-> "planning",
                        startTime |-> now]
           t == ToolOf(via)
       IN  /\ researches' = [researches EXCEPT ![t] = (researchId :> research) @@ @]
           /\ calls' = calls \cup
                  {[pc |-> "analyzeQuestion",
                    tool |-> t,
                    researchId |-> researchId,
                    held |-> IF Has(params, "query")
                             THEN [ok |-> TRUE, value |-> analyzeQuestion(params.query)]
                             ELSE [ok |-> FALSE, error |-> "TypeError"]]
                   @@ Frame(via, params)}
    /\ uuids' = uuids + 1
    /\ UNCHANGED <<last, now, continues, pure>>

DefaultMaxSubQuestions == 5

MaxSubQuestionsCap == 10

\* Math.min(params.maxSubQuestions || 5, 10)
LimitOf(params) ==
    Min(IF Has(params, "maxSubQuestions") /\ params.maxSubQuestions # 0
        THEN params.maxSubQuestions ELSE DefaultMaxSubQuestions,
        MaxSubQuestionsCap)

\* analyzeQuestion threw: nothing after the await runs
startResearchThrows(call) ==
    /\ last = None
    /\ call.pc = "analyzeQuestion"
    /\ ~call.held.ok
    /\ calls' = calls \ {call}
    /\ last' = Done(call, Rejected(call.held.error))
    /\ researches' = Release(call.tool, researches)
    /\ UNCHANGED <<uuids, now, continues, pure>>

\* after the await of analyzeQuestion
startResearchResume(call) ==
    /\ last = None
    /\ call.pc = "analyzeQuestion"
    /\ call.held.ok
    /\ LET t == call.tool
           id == call.researchId
           research == researches[t][id]
           limitedSubQuestions == Slice0(call.held.value, LimitOf(call.params))
           subQuestions ==
               [k \in 1..Len(limitedSubQuestions) |->
                   [id |-> <<id, "sq", k>>,
                    question |-> limitedSubQuestions[k],
                    status |-> "pending"]]
           content == [text |-> "Analyzed question", about |-> call.params.query,
                       generated |-> limitedSubQuestions]
       IN  /\ researches' = Release(t, [researches EXCEPT ![t][id] =
                  [research EXCEPT !.subQuestions = subQuestions,
                                   !.steps[1].content = content,
                                   !.status = "searching"]])
           /\ last' = Done(call, Success([researchId |-> id,
                                          question |-> call.params.query,
                                          subQuestions |-> limitedSubQuestions,
                                          status |-> "searching"]))
    /\ calls' = calls \ {call}
    /\ UNCHANGED <<uuids, now, continues, pure>>

(***************************************************************************)
(* getResearchStatus and generateReport.                                   *)
(***************************************************************************)
\* a tool without the check of lines 345, 383 and 526: C13 depends on it
NothingToDo == Success([message |-> "Nothing to do"])

NotFound == Failure("Research not found")

\* a status call that restarts the clock of the research: C17 depends on
\* the handler only reading
getResearchStatusRestarting(via, params) ==
    /\ Dispatched(via, params, "status")
    /\ HasResearch(via, params)
    /\ last' = Done(Frame(via, params), Success([researchId |-> params.researchId]))
    /\ researches' = [researches EXCEPT ![0][params.researchId].startTime = now + 1]
    /\ UNCHANGED <<calls, uuids, now, continues, pure>>

getResearchStatus(via, params) ==
    /\ Dispatched(via, params, "status")
    /\ LET research == StoreOf(via)[params.researchId]
       IN  last' = Done(Frame(via, params),
                        IF ~HasResearch(via, params) THEN NotFound
                        ELSE Success([researchId |-> params.researchId,
                                      question |-> research.question,
                                      status |-> research.status,
                                      subQuestions |->
                                          [k \in 1..Len(research.subQuestions) |->
                                              [question |-> research.subQuestions[k].question,
                                               status |-> research.subQuestions[k].status]],
                                      steps |-> Len(research.steps),
                                      startTime |-> research.startTime]
                                     @@ (IF Has(research, "endTime")
                                         THEN [endTime |-> research.endTime]
                                         ELSE <<>>)))
    /\ UNCHANGED <<researches, calls, uuids, now, continues, pure>>

MillisecondsPerSecond == 1000

\* a tool that never hands a report out: C12 depends on the check
NeverReportable(research) == TRUE

\* research.status !== ResearchStatus.COMPLETED
NotCompleted(research) == research.status # "completed"

generateReport(via, params) ==
    /\ Dispatched(via, params, "report")
    /\ LET research == StoreOf(via)[params.researchId]
       IN  last' = Done(Frame(via, params),
                        IF ~HasResearch(via, params) THEN NotFound
                        ELSE IF NotCompleted(research)
                        THEN Failure("Research is not yet completed")
                        ELSE Success([researchId |-> params.researchId,
                                      question |-> research.question,
                                      report |-> research.report,
                                      subQuestions |-> Len(research.subQuestions),
                                      steps |-> Len(research.steps),
                                      startTime |-> research.startTime,
                                      endTime |-> research.endTime,
                                      duration |->
                                          [num |-> research.endTime - research.startTime,
                                           den |-> MillisecondsPerSecond]]))
    /\ UNCHANGED <<researches, calls, uuids, now, continues, pure>>

(***************************************************************************)
(* continueResearch and synthesizeResults.                                 *)
(***************************************************************************)
RECURSIVE Total(_, _)
Total(count, ids) ==
    IF ids = {} THEN 0
    ELSE LET id == CHOOSE i \in ids : TRUE
         IN  count[id] + Total(count, ids \ {id})

\* the caller's count of the continue calls it has sent for an id
Counted(params) ==
    IF Has(params, "researchId") /\ params.researchId \in KnownIds
    THEN /\ Total(continues, KnownIds) < MaxContinues
         /\ continues' = [continues EXCEPT ![params.researchId] = @ + 1]
    ELSE UNCHANGED continues

RECURSIVE LastPending(_, _)
\* a scan that takes the last pending entry: C29 depends on the scan order
LastPending(subQuestions, k) ==
    IF k > Len(subQuestions) THEN 0
    ELSE IF LastPending(subQuestions, k + 1) # 0 THEN LastPending(subQuestions, k + 1)
    ELSE IF subQuestions[k].status = "pending" THEN k
    ELSE 0

RECURSIVE FirstUnfinished(_, _)
\* a scan that also takes a sub-question in progress: C32 depends on the
\* test of the status
FirstUnfinished(subQuestions, k) ==
    IF k > Len(subQuestions) THEN 0
    ELSE IF subQuestions[k].status # "completed" THEN k
    ELSE FirstUnfinished(subQuestions, k + 1)

RECURSIVE FirstPending(_, _)
\* research.subQuestions.find(sq => sq.status === 'pending'): its index, or 0
FirstPending(subQuestions, k) ==
    IF k > Len(subQuestions) THEN 0
    ELSE IF subQuestions[k].status = "pending" THEN k
    ELSE FirstPending(subQuestions, k + 1)

PendingCount(subQuestions) ==
    Cardinality({k \in 1..Len(subQuestions) : subQuestions[k].status = "pending"})

continueNotFound(via, params) ==
    /\ Dispatched(via, params, "continue")
    /\ ~HasResearch(via, params)
    /\ Counted(params)
    /\ last' = Done(Frame(via, params), NotFound)
    /\ UNCHANGED <<researches, calls, uuids, now, pure>>

\* a tool without the check of line 394: C2 and C10 depend on the check
NeverCompleted(research) == FALSE

\* research.status === ResearchStatus.COMPLETED
IsCompleted(research) == research.status = "completed"

\* the research is already completed
continueCompleted(via, params) ==
    /\ Dispatched(via, params, "continue")
    /\ HasResearch(via, params)
    /\ IsCompleted(StoreOf(via)[params.researchId])
    /\ Counted(params)
    /\ last' = Done(Frame(via, params),
                    Success([researchId |-> params.researchId,
                             question |-> StoreOf(via)[params.researchId].question,
                             status |-> StoreOf(via)[params.researchId].status,
                             message |-> "Research is already completed"]))
    /\ UNCHANGED <<researches, calls, uuids, now, pure>>

SearchCount == 10

SearchCountCap == 20

\* a pending sub-question is found: up to the await inside performSearch
continueResearch(via, params) ==
    /\ Dispatched(via, params, "continue")
    /\ HasResearch(via, params)
    /\ Counted(params)
    /\ LET t == ToolOf(via)
           id == params.researchId
           research == researches[t][id]
           next == FirstPending(research.subQuestions, 1)
           nextSubQuestion == research.subQuestions[next]
           searchStep == Step(id, Len(research.steps) + 1, "search",
                              Content("Searching for", nextSubQuestion.question))
       IN  /\ ~IsCompleted(research)
           /\ next # 0
           /\ researches' = [researches EXCEPT ![t][id] =
                  [research EXCEPT !.subQuestions[next].status = "in-progress",
                                   !.steps = Append(@, searchStep)]]
           /\ calls' = calls \cup
                  {[pc |-> "performSearch",
                    tool |-> t,
                    researchId |-> id,
                    sq |-> next,
                    step |-> Len(research.steps) + 1,
                    sent |-> IF nextSubQuestion.question = <<>> THEN <<>>
                             ELSE <<[q |-> nextSubQuestion.question,
                                     count |-> Min(SearchCount, SearchCountCap)]>>]
                   @@ Frame(via, params)}
    /\ UNCHANGED <<last, uuids, now, pure>>

\* performSearch refuses an empty query before it sends anything
searchRefused(call) ==
    /\ last = None
    /\ call.pc = "performSearch"
    /\ call.sent = <<>>
    /\ calls' = calls \ {call}
    /\ last' = Done(call, Rejected("Search query is required"))
    /\ UNCHANGED <<researches, uuids, now, continues, pure>>

\* a tool that puts the sub-question back to pending when its search fails:
\* C31 depends on the status staying as line 415 set it
searchFailsAndReverts(call, reply) ==
    /\ last = None
    /\ call.pc = "performSearch"
    /\ call.sent # <<>>
    /\ LET found == performSearch(call.sent[1].q, reply)
       IN  /\ ~found.ok
           /\ last' = Done(call, Rejected(found.error))
    /\ calls' = calls \ {call}
    /\ researches' =
           [researches EXCEPT
               ![call.tool][call.researchId].subQuestions[call.sq].status = "pending"]
    /\ UNCHANGED <<uuids, now, continues, pure>>

\* the request fails, or the payload makes calculateRelevance throw
searchFails(call, reply) ==
    /\ last = None
    /\ call.pc = "performSearch"
    /\ call.sent # <<>>
    /\ LET found == performSearch(call.sent[1].q, reply)
       IN  /\ ~found.ok
           /\ last' = Done(call, Rejected(found.error))
    /\ calls' = calls \ {call}
    /\ UNCHANGED <<researches, uuids, now, continues, pure>>

\* after the await of performSearch, up to the await of analyzeResults
searchReturns(call, reply) ==
    /\ last = None
    /\ call.pc = "performSearch"
    /\ call.sent # <<>>
    /\ LET t == call.tool
           id == call.researchId
           research == researches[t][id]
           nextSubQuestion == research.subQuestions[call.sq]
           found == performSearch(call.sent[1].q, reply)
           analysisStep == Step(id, Len(research.steps) + 1, "result_analysis",
                                Content("Analyzing results for", nextSubQuestion.question))
       IN  /\ found.ok
           /\ researches' = [researches EXCEPT ![t][id] =
                  [research EXCEPT
                      !.subQuestions[call.sq] =
                          [searchResults |-> found.results] @@ nextSubQuestion,
                      !.steps = Append(
                          [@ EXCEPT ![call.step].content =
                              [text |-> "Searched for",
                               about |-> nextSubQuestion.question,
                               found |-> Len(found.results)]],
                          analysisStep)]]
           /\ calls' = (calls \ {call}) \cup
                  {[pc |-> "analyzeResults",
                    tool |-> t,
                    researchId |-> id,
                    sq |-> call.sq,
                    step |-> Len(research.steps) + 1,
                    held |-> analyzeResults(found.results, nextSubQuestion.question)]
                   @@ Frame(call.via, call.params)}
    /\ UNCHANGED <<last, uuids, now, continues, pure>>

\* a tool that also rewrites the text of the sub-question: C19 depends on
\* the handler leaving it alone
AnalyzedAndRenamed(sq, analysis) ==
    [analysis |-> analysis, status |-> "completed", question |-> <<>>] @@ sq

\* a tool without line 450: C33 depends on the line
CompletedOnly(sq, analysis) == [status |-> "completed"] @@ sq

\* a tool without line 456: C1 depends on the line
AnalyzedOnly(sq, analysis) == [analysis |-> analysis] @@ sq

\* nextSubQuestion.analysis = analysis; nextSubQuestion.status = 'completed'
Analyzed(sq, analysis) == [analysis |-> analysis, status |-> "completed"] @@ sq

\* after the await of analyzeResults
analysisResume(call) ==
    /\ last = None
    /\ call.pc = "analyzeResults"
    /\ LET t == call.tool
           id == call.researchId
           research == researches[t][id]
           nextSubQuestion == research.subQuestions[call.sq]
           subQuestions ==
               [research.subQuestions EXCEPT ![call.sq] =
                   Analyzed(nextSubQuestion, call.held)]
       IN  /\ researches' = [researches EXCEPT ![t][id] =
                  [research EXCEPT
                      !.subQuestions = subQuestions,
                      !.steps[call.step].content =
                          Content("Analyzed results for", nextSubQuestion.question)]]
           /\ last' = Done(call,
                           Success([researchId |-> id,
                                    question |-> research.question,
                                    subQuestionCompleted |-> nextSubQuestion.question,
                                    remainingSubQuestions |-> PendingCount(subQuestions),
                                    status |-> research.status]))
    /\ calls' = calls \ {call}
    /\ UNCHANGED <<uuids, now, continues, pure>>

\* no pending sub-question: synthesizeResults up to the await of
\* synthesizeReport, which has computed the report by then
synthesizeResults(via, params) ==
    /\ Dispatched(via, params, "continue")
    /\ HasResearch(via, params)
    /\ Counted(params)
    /\ LET t == ToolOf(via)
           id == params.researchId
           research == researches[t][id]
           synthesisStep == Step(id, Len(research.steps) + 1, "synthesis",
                                 Content("Synthesizing research results", <<>>))
       IN  /\ ~IsCompleted(research)
           /\ FirstPending(research.subQuestions, 1) = 0
           /\ researches' = [researches EXCEPT ![t][id] =
                  [research EXCEPT !.steps = Append(@, synthesisStep),
                                   !.status = "synthesizing"]]
           /\ calls' = calls \cup
                  {[pc |-> "synthesizeReport",
                    tool |-> t,
                    researchId |-> id,
                    step |-> Len(research.steps) + 1,
                    held |-> synthesizeReport(research.question, research.subQuestions)]
                   @@ Frame(via, params)}
    /\ UNCHANGED <<last, uuids, now, pure>>

\* a tool that keeps only the synthesis step of the log: C18 depends on the
\* log being kept
CompletedAndTrimmed(research, report) ==
    [report |-> report, status |-> "completed", endTime |-> now,
     steps |-> <<research.steps[Len(research.steps)]>>] @@ research

\* a tool without line 501: C7 depends on the line
CompletedWithoutEndTime(research, report) ==
    [report |-> report, status |-> "completed"] @@ research

\* research.report = report; research.status = COMPLETED; research.endTime = Date.now()
Completed(research, report) ==
    [report |-> report, status |-> "completed", endTime |-> now] @@ research

\* after the await of synthesizeReport
synthesisResume(call) ==
    /\ last = None
    /\ call.pc = "synthesizeReport"
    /\ LET t == call.tool
           id == call.researchId
           research == researches[t][id]
       IN  /\ researches' = [researches EXCEPT ![t][id] =
                  Completed([research EXCEPT !.steps[call.step].content =
                                Content("Synthesized research results", <<>>)],
                            call.held)]
           /\ last' = Done(call,
                           Success([researchId |-> id,
                                    question |-> research.question,
                                    status |-> "completed",
                                    message |-> "Research completed",
                                    reportPreview |-> call.held.kind]))
    /\ calls' = calls \ {call}
    /\ UNCHANGED <<uuids, now, continues, pure>>

(***************************************************************************)
(* The caller and the clock.                                               *)
(***************************************************************************)
\* the caller takes the outcome; a successful start hands it the new id
Deliver ==
    /\ last # None
    /\ last' = None
    /\ continues' =
           IF ActionOf(last.params) = "start" /\ Has(last.resp, "result")
           THEN (last.resp.result.researchId :> 0) @@ continues
           ELSE continues
    /\ UNCHANGED <<researches, calls, uuids, now, pure>>

\* time passes while a call waits for the search collaborator
Tick ==
    /\ last = None
    /\ \E call \in calls : call.pc = "performSearch"
    /\ now < MaxTime
    /\ now' = now + 1
    /\ UNCHANGED <<researches, calls, last, uuids, continues, pure>>

Next ==
    \/ \E via \in Vias, params \in Requests : ExecuteInvalid(via, params)
    \/ \E via \in Vias, params \in Requests : ExecuteUnknownAction(via, params)
    \/ \E via \in Vias, params \in Requests :
           uuids < MaxStarts /\ startResearch(via, params)
    \/ \E via \in Vias, params \in Requests : getResearchStatus(via, params)
    \/ \E via \in Vias, params \in Requests : generateReport(via, params)
    \/ \E via \in Vias, params \in Requests : continueNotFound(via, params)
    \/ \E via \in Vias, params \in Requests : continueCompleted(via, params)
    \/ \E via \in Vias, params \in Requests : continueResearch(via, params)
    \/ \E via \in Vias, params \in Requests : synthesizeResults(via, params)
    \/ \E call \in calls : startResearchThrows(call)
    \/ \E call \in calls : startResearchResume(call)
    \/ \E call \in calls : searchRefused(call)
    \/ \E call \in calls, reply \in Replies : searchFails(call, reply)
    \/ \E call \in calls, reply \in Replies : searchReturns(call, reply)
    \/ \E call \in calls : analysisResume(call)
    \/ \E call \in calls : synthesisResume(call)
    \/ Deliver
    \/ Tick

Spec == Init /\ [][Next]_vars

(***************************************************************************)
(* One caller, one call at a time, on the registered tool, with a search   *)
(* collaborator that always answers.                                       *)
(***************************************************************************)
Answers == {reply \in Replies : performSearch(Compare, reply).ok}

NextSeq ==
    \/ \E params \in Requests :
           calls = {} /\ uuids < MaxStarts /\ startResearch("registered", params)
    \/ \E params \in Requests : calls = {} /\ getResearchStatus("registered", params)
    \/ \E params \in Requests : calls = {} /\ generateReport("registered", params)
    \/ \E params \in Requests : calls = {} /\ continueCompleted("registered", params)
    \/ \E params \in Requests : calls = {} /\ continueResearch("registered", params)
    \/ \E params \in Requests : calls = {} /\ synthesizeResults("registered", params)
    \/ \E call \in calls : startResearchThrows(call)
    \/ \E call \in calls : startResearchResume(call)
    \/ \E call \in calls, reply \in Answers : searchReturns(call, reply)
    \/ \E call \in calls : analysisResume(call)
    \/ \E call \in calls : synthesisResume(call)
    \/ Deliver
    \/ Tick

SpecSeq == Init /\ [][NextSeq]_vars

(***************************************************************************)
(* One caller, one call at a time, on the registered tool, with a search   *)
(* collaborator that may fail.                                             *)
(***************************************************************************)
NextTurns ==
    \/ \E params \in Requests :
           calls = {} /\ uuids < MaxStarts /\ startResearch("registered", params)
    \/ \E params \in Requests : calls = {} /\ getResearchStatus("registered", params)
    \/ \E params \in Requests : calls = {} /\ generateReport("registered", params)
    \/ \E params \in Requests : calls = {} /\ continueCompleted("registered", params)
    \/ \E params \in Requests : calls = {} /\ continueResearch("registered", params)
    \/ \E params \in Requests : calls = {} /\ synthesizeResults("registered", params)
    \/ \E call \in calls : startResearchThrows(call)
    \/ \E call \in calls : startResearchResume(call)
    \/ \E call \in calls : searchRefused(call)
    \/ \E call \in calls, reply \in Replies : searchFails(call, reply)
    \/ \E call \in calls, reply \in Replies : searchReturns(call, reply)
    \/ \E call \in calls : analysisResume(call)
    \/ \E call \in calls : synthesisResume(call)
    \/ Deliver
    \/ Tick

SpecTurns == Init /\ [][NextTurns]_vars

(***************************************************************************)
(* Two researches side by side: start and continue calls only, in any      *)
(* interleaving, on the registered tool and through callDeepResearch.      *)
(***************************************************************************)
Requests2 ==
    { [query |-> Compare],
      [action |-> "start", query |-> WhatIs, maxSubQuestions |-> 1] }
    \cup [action : {"continue"}, researchId : 1..MaxSessions]

Next2 ==
    \/ \E via \in Vias, params \in Requests2 :
           uuids < MaxSessions /\ startResearch(via, params)
    \/ \E via \in Vias, params \in Requests2 : continueNotFound(via, params)
    \/ \E via \in Vias, params \in Requests2 : continueCompleted(via, params)
    \/ \E via \in Vias, params \in Requests2 : continueResearch(via, params)
    \/ \E via \in Vias, params \in Requests2 : synthesizeResults(via, params)
    \/ \E call \in calls : startResearchResume(call)
    \/ \E call \in calls, reply \in Replies : searchFails(call, reply)
    \/ \E call \in calls, reply \in Replies : searchReturns(call, reply)
    \/ \E call \in calls : analysisResume(call)
    \/ \E call \in calls : synthesisResume(call)
    \/ Deliver
    \/ Tick

Spec2 == Init /\ [][Next2]_vars

(***************************************************************************)
(* The helpers called on their own, on arguments drawn from bounded sets.  *)
(***************************************************************************)
RawC == [title |-> <<"quantum", "computing">>, url |-> "u3",
         description |-> <<"quantum">>]

\* what performSearch makes of raw results for a query
Scored(query, raw) ==
    performSearch(query, [kind |-> "results", results |-> raw]).results

SolarQuestion == <<"solar", "?">>

WindQuestion == <<"wind", "energy", "?">>

\* sub-questions as the SubQuestion type allows them
SubQuestionSamples ==
    { [id |-> "a", question |-> SolarQuestion, status |-> "pending"],
      [id |-> "b", question |-> SolarQuestion, status |-> "in-progress",
       searchResults |-> Scored(SolarQuestion, <<RawA>>)],
      [id |-> "c", question |-> SolarQuestion, status |-> "completed",
       searchResults |-> Scored(SolarQuestion, <<RawA, RawB>>),
       analysis |-> analyzeResults(Scored(SolarQuestion, <<RawA, RawB>>), SolarQuestion)],
      [id |-> "d", question |-> WindQuestion, status |-> "completed",
       searchResults |-> Scored(WindQuestion, <<RawB, RawC, RawA>>),
       analysis |-> analyzeResults(Scored(WindQuestion, <<RawB, RawC, RawA>>), WindQuestion)],
      [id |-> "e", question |-> WindQuestion, status |-> "completed",
       analysis |-> analyzeResults(<<>>, WindQuestion)],
      [id |-> "f", question |-> WindQuestion, status |-> "completed",
       searchResults |-> Scored(WindQuestion, <<RawC>>)],
      [id |-> "g", question |-> SolarQuestion, status |-> "completed",
       searchResults |-> Scored(SolarQuestion, <<RawC>>), analysis |-> <<>>] }

\* the lists of at most n of them
ListsUpTo(n) == UNION {[1..k -> SubQuestionSamples] : k \in 0..n}

QuestionSamples ==
    { Compare, WhatIs, Append(WhatIs, "?"), <<>>, <<"?">>, <<"What">>,
      <<"quantum", "computing">>,
      <<"solar", "vs", "wind", "?">>,
      <<"solar", "and">>,
      <<"and", "wind">>,
      <<"solar", "compared", "to", "wind">>,
      <<"solar", "versus", "wind", "or", "quantum", "computing">>,
      <<"What", "are", "the", "differences", "between", "solar", "energy", "?">>,
      <<"the", "history", "of", "computing">> }

QuerySamples ==
    { Compare, WhatIs, WindQuestion, <<>>, <<"is", "or">>, <<"solar", "solar">> }

TitleSamples == { RawA.title, RawB.title, <<"history">>, <<>> }

DescriptionSamples == { RawA.description, RawC.description, <<"or">> }

PureCalls ==
    [fn : {"synthesizeReport"}, mainQuestion : {Compare, WhatIs},
     subQuestions : ListsUpTo(MaxListLen)]
    \cup [fn : {"analyzeQuestion"}, question : QuestionSamples]
    \cup [fn : {"calculateRelevance"}, query : QuerySamples,
          title : TitleSamples, description : DescriptionSamples]

InitPure ==
    /\ researches = [t \in Tools |-> <<>>]
    /\ calls = {}
    /\ last = None
    /\ uuids = 0
    /\ now = 0
    /\ continues = <<>>
    /\ pure \in PureCalls

\* the call returns v
Returns(v) ==
    /\ ~Has(pure, "returned")
    /\ pure' = [returned |-> v] @@ pure
    /\ UNCHANGED <<researches, calls, last, uuids, now, continues>>

CallSynthesizeReport ==
    /\ pure.fn = "synthesizeReport"
    /\ Returns(synthesizeReport(pure.mainQuestion, pure.subQuestions))

CallAnalyzeQuestion ==
    /\ pure.fn = "analyzeQuestion"
    /\ Returns(analyzeQuestion(pure.question))

CallCalculateRelevance ==
    /\ pure.fn = "calculateRelevance"
    /\ Returns(calculateRelevance(pure.query, pure.title, pure.description))

NextPure ==
    \/ CallSynthesizeReport
    \/ CallAnalyzeQuestion
    \/ CallCalculateRelevance

SpecPure == InitPure /\ [][NextPure]_vars

(***************************************************************************)
(* The search invoker, the result analyzer and the two search tools        *)
(* (tools/braveSearch), each called on its own.                            *)
(***************************************************************************)
RawNoDescription == [title |-> <<"quantum", "computing">>, url |-> "u3"]

\* every payload the search collaborator can answer with
Payloads ==
    Replies \cup
    { [kind |-> "no web section"],
      [kind |-> "no results list"],
      [kind |-> "results", results |-> <<>>],
      [kind |-> "results", results |-> <<RawNoDescription>>] }

RECURSIVE Run(_)
\* a word of n characters
Run(n) ==
    IF n = 0 THEN ""
    ELSE IF n % 2 = 0 THEN LET half == Run(n \div 2) IN half \o half
    ELSE "a" \o Run(n - 1)

RECURSIVE Chars(_)
\* text.length: the words, a space between two words, none before a "?"
Chars(text) ==
    IF text = <<>> THEN 0
    ELSE Len(Head(text))
         + (IF Len(text) >= 2 /\ text[2] # "?" THEN 1 ELSE 0)
         + Chars(Tail(text))

RECURSIVE SliceChars(_, _)
\* text.slice(0, n)
SliceChars(text, n) ==
    IF text = <<>> \/ n <= 0 THEN <<>>
    ELSE IF Len(Head(text)) >= n THEN <<SubSeq(Head(text), 1, n)>>
    ELSE <<Head(text)>>
         \o SliceChars(Tail(text),
                       n - Len(Head(text))
                         - (IF Len(text) >= 2 /\ text[2] # "?" THEN 1 ELSE 0))

QueryLimit == 400

MinCount == 1

WebDefaultCount == 10

LocalDefaultCount == 5

MaxOffset == 9

\* Math.min(Math.max(params.count || fallback, 1), 20)
ClampCount(params, fallback) ==
    Min(Max(IF Has(params, "count") /\ params.count # 0 THEN params.count
            ELSE fallback,
            MinCount),
        SearchCountCap)

\* Math.min(Math.max(params.offset || 0, 0), 9)
ClampOffset(params) ==
    Min(Max(IF Has(params, "offset") THEN params.offset ELSE 0, 0), MaxOffset)

\* the request performSearch sends for a query and a count
Request(query, count) == [q |-> query, count |-> Min(count, SearchCountCap)]

\* BraveWebSearchTool.execute, the collaborator answering with reply: what
\* the tool sent and what it answers
WebSearch(params, reply) ==
    IF ~Truthy(params, "query")
    THEN [sent |-> <<>>, resp |-> Failure("Search query is required")]
    ELSE LET query == SliceChars(params.query, QueryLimit)
             count == ClampCount(params, WebDefaultCount)
             found == performSearch(query, reply)
         IN  [sent |-> <<Request(query, count)>>,
              resp |-> IF found.ok
                       THEN Success([query |-> query,
                                     count |-> Len(found.results),
                                     offset |-> ClampOffset(params),
                                     results |-> found.results])
                       ELSE Failure(found.error)]

NearMe == <<"near", "me">>

\* BraveLocalSearchTool.execute
LocalSearch(params, reply) ==
    IF ~Truthy(params, "query")
    THEN [sent |-> <<>>, resp |-> Failure("Search query is required")]
    ELSE LET query == SliceChars(params.query, QueryLimit)
             count == ClampCount(params, LocalDefaultCount)
             found == performSearch(query \o NearMe, reply)
         IN  [sent |-> <<Request(query \o NearMe, count)>>,
              resp |-> IF found.ok
                       THEN Success([query |-> query,
                                     count |-> Len(found.results),
                                     results |-> found.results])
                       ELSE Failure(found.error)]

Pizza == <<"pizza">>

ToolQueries ==
    { <<>>, Pizza, WindQuestion, <<Run(QueryLimit)>>, <<Run(MaxQueryChars)>>,
      Pizza \o <<Run(MaxQueryChars - 6)>> }

CountSamples == {-1, 0, 1, 20, 21}

OffsetSamples == {-1, 12}

ToolRequests ==
    [query : ToolQueries]
    \cup [query : ToolQueries, count : CountSamples]
    \cup [query : {Pizza}, offset : OffsetSamples]
    \cup { [count |-> 1] }

ResultSamples ==
    { [title |-> <<"solar", "energy">>, url |-> "u1",
       description |-> <<"solar", "power">>, relevance |-> [num |-> 1, den |-> 2]],
      [title |-> <<"wind", "energy">>, url |-> "u2",
       description |-> <<"wind", "and", "solar">>, relevance |-> [num |-> 2, den |-> 4]],
      [title |-> <<"quantum", "computing">>, url |-> "u3",
       description |-> <<"quantum">>, relevance |-> [num |-> 3, den |-> 4]],
      [title |-> <<"history">>, url |-> "u4",
       description |-> <<"history">>, relevance |-> [num |-> 0, den |-> 1]],
      [title |-> <<"pizza">>, url |-> "u5", description |-> <<"pizza">>] }

ResultLists == UNION {[1..k -> ResultSamples] : k \in 0..MaxResults}

SearchCalls ==
    [fn : {"performSearch"}, query : {Compare, WindQuestion}, reply : Payloads]
    \cup [fn : {"analyzeResults"}, results : ResultLists, query : {WindQuestion}]
    \cup [fn : {"BraveWebSearchTool.execute", "BraveLocalSearchTool.execute"},
          params : ToolRequests]

InitSearch ==
    /\ researches = [t \in Tools |-> <<>>]
    /\ calls = {}
    /\ last = None
    /\ uuids = 0
    /\ now = 0
    /\ continues = <<>>
    /\ pure \in SearchCalls

CallPerformSearch ==
    /\ pure.fn = "performSearch"
    /\ Returns(performSearch(pure.query, pure.reply))

CallAnalyzeResults ==
    /\ pure.fn = "analyzeResults"
    /\ Returns(analyzeResults(pure.results, pure.query))

CallWebSearch(reply) ==
    /\ pure.fn = "BraveWebSearchTool.execute"
    /\ Returns(WebSearch(pure.params, reply))

CallLocalSearch(reply) ==
    /\ pure.fn = "BraveLocalSearchTool.execute"
    /\ Returns(LocalSearch(pure.params, reply))

NextSearch ==
    \/ CallPerformSearch
    \/ CallAnalyzeResults
    \/ \E reply \in Payloads : CallWebSearch(reply)
    \/ \E reply \in Payloads : CallLocalSearch(reply)

SpecSearch == InitSearch /\ [][NextSearch]_vars

(***************************************************************************)
(* Properties.                                                             *)
(***************************************************************************)
\* the researches of every tool instance, as <<instance, id>>
Sessions == {s \in Tools \X Tools : s[2] \in DOMAIN researches[s[1]]}

Session(s) == researches[s[1]][s[2]]

WithStatus(subQuestions, status) ==
    {k \in 1..Len(subQuestions) : subQuestions[k].status = status}

\* nothing is running and no outcome is on its way
Quiescent == calls = {} /\ last = None

Rank(status) ==
    CASE status = "planning" -> 1
      [] status = "searching" -> 2
      [] status = "synthesizing" -> 3
      [] status = "completed" -> 4

\* the invocations of continue suspended on research id
ContinuesInFlight(id) ==
    {call \in calls : ActionOf(call.params) = "continue" /\ call.researchId = id}

\* this step is execute taking the call (via, params) up to its first await
\* or, if it awaits nothing, to its end
Takes(via, params) ==
    IF last' # None /\ last = None
    THEN calls' = calls /\ last'.via = via /\ last'.params = params
    ELSE /\ last' = None
         /\ \E call \in calls' \ calls :
                /\ call.via = via
                /\ call.params = params
                /\ call.pc \in {"analyzeQuestion", "performSearch", "synthesizeReport"}
                /\ calls' = calls \cup {call}

\* C1: with continue calls sent one at a time and every search answered,
\* whenever nothing is running a research with N sub-questions for which k
\* continue calls were sent has min(k, N) completed sub-questions and two
\* steps for each of them; it is completed exactly if k > N, and then its
\* last step is the synthesis, a non-empty report is stored and endTime is
\* not before startTime.
C1_OneSubQuestionPerContinue ==
    Quiescent =>
        \A id \in KnownIds :
            LET research == researches[0][id]
                N == Len(research.subQuestions)
                k == continues[id]
            IN  /\ WithStatus(research.subQuestions, "completed") = 1..Min(k, N)
                /\ WithStatus(research.subQuestions, "pending") = (Min(k, N) + 1)..N
                /\ Len(research.steps) = 1 + 2 * Min(k, N) + (IF k > N THEN 1 ELSE 0)
                /\ IsCompleted(research) <=> k > N
                /\ k <= N => research.status = "searching"
                /\ k > N =>
                       /\ research.steps[Len(research.steps)].type = "synthesis"
                       /\ Has(research, "report")
                       /\ research.report.kind # ""
                       /\ Has(research, "endTime")
                       /\ research.endTime >= research.startTime

\* a research with two sub-questions is completed by the third continue call,
\* after the clock has moved
C1_Witness ==
    /\ Quiescent
    /\ \E id \in KnownIds :
           /\ Len(researches[0][id].subQuestions) = 2
           /\ continues[id] = 3
           /\ IsCompleted(researches[0][id])
           /\ researches[0][id].endTime > researches[0][id].startTime

\* C2: no step moves the status of a research backwards along planning,
\* searching, synthesizing, completed; so a completed research stays
\* completed.
C2_StatusMovesForward ==
    [][\A s \in Sessions :
           s[2] \in DOMAIN researches'[s[1]] =>
               Rank(researches'[s[1]][s[2]].status) >= Rank(Session(s).status)]_vars

\* a continue call has been answered on a research that was already completed
C2_Witness ==
    /\ last # None
    /\ ActionOf(last.params) = "continue"
    /\ Has(last.params, "researchId")
    /\ last.params.researchId \in DOMAIN researches[0]
    /\ last.resp = Success([researchId |-> last.params.researchId,
                            question |-> researches[0][last.params.researchId].question,
                            status |-> "completed",
                            message |-> "Research is already completed"])
    /\ IsCompleted(researches[0][last.params.researchId])

\* C3: at most one sub-question of a research is in progress.
C3_AtMostOneInProgress ==
    \A s \in Sessions :
        Cardinality(WithStatus(Session(s).subQuestions, "in-progress")) <= 1

\* C4: a continue call on a research that has one in flight is rejected or
\* waits: two continue calls on one research are never in flight together.
C4_NoInterleavedContinues ==
    \A id \in 1..MaxStarts : Cardinality(ContinuesInFlight(id)) <= 1

\* C5: when the search of a continue call fails, the sub-question the call
\* selected is pending afterwards.
C5_FailedSearchRevertsToPending ==
    [][\A call \in calls :
           (searchRefused(call) \/ \E reply \in Replies : searchFails(call, reply))
           => researches'[call.tool][call.researchId].subQuestions[call.sq].status
                  = "pending"]_vars

\* C6: the sub-questions of a research that is synthesizing or completed are
\* all completed.
C6_SynthesisOnlyWhenAllCompleted ==
    \A s \in Sessions :
        Session(s).status \in {"synthesizing", "completed"} =>
            WithStatus(Session(s).subQuestions, "completed")
                = 1..Len(Session(s).subQuestions)

\* C7: in every state a research has a report exactly if it is completed,
\* and an endTime exactly if it is completed.
C7_ReportAndEndTimeIffCompleted ==
    \A s \in Sessions :
        /\ Has(Session(s), "report") <=> IsCompleted(Session(s))
        /\ Has(Session(s), "endTime") <=> IsCompleted(Session(s))

\* one research is completed, with its report and endTime, while another
\* call is still suspended on it
C7_Witness ==
    \E s \in Sessions :
        /\ IsCompleted(Session(s))
        /\ Has(Session(s), "report")
        /\ Has(Session(s), "endTime")
        /\ ContinuesInFlight(s[2]) # {}

\* C8: every invocation of execute ends with a response of status success or
\* error.
C8_AlwaysAnEnvelope ==
    last # None => Has(last.resp, "status") /\ last.resp.status \in {"success", "error"}

\* C9: a status, continue or report call sent through callDeepResearch with
\* an id that start has returned is never answered "Research not found".
C9_ReturnedIdIsFound ==
    (/\ last # None
     /\ last.via = "transport"
     /\ ActionOf(last.params) \in {"status", "continue", "report"}
     /\ last.params.researchId \in KnownIds)
    => last.resp # NotFound

\* C10: a step in which a tool takes a continue call on a research of its
\* that is completed leaves every research as it is, suspends nothing on the
\* search collaborator, and ends the call with a success response.
C10_ContinueOnCompletedIsNoOp ==
    [][\A via \in Vias, params \in OtherRequests :
           (/\ Dispatched(via, params, "continue")
            /\ HasResearch(via, params)
            /\ StoreOf(via)[params.researchId].status = "completed"
            /\ Takes(via, params))
           => /\ researches' = researches
              /\ calls' = calls
              /\ last' # None
              /\ last'.resp.status = "success"]_vars

\* a continue call on a completed research has been answered while its
\* research holds the report of two sub-questions
C10_Witness ==
    /\ last # None
    /\ ActionOf(last.params) = "continue"
    /\ Has(last.resp, "result")
    /\ Has(last.resp.result, "message")
    /\ last.resp.result.message = "Research is already completed"
    /\ Len(researches[0][last.params.researchId].subQuestions) >= 1
    /\ researches[0][last.params.researchId].report.kind = "Research Report"

\* the answer to a continue call on a research that was already completed
AnsweredAlreadyCompleted ==
    /\ last # None
    /\ ActionOf(last.params) = "continue"
    /\ Has(last.resp, "result")
    /\ Has(last.resp.result, "message")
    /\ last.resp.result.message = "Research is already completed"

\* C11: the answer to a continue call on a research that was already
\* completed carries the report stored in the research.
C11_ContinueOnCompletedReturnsReport ==
    AnsweredAlreadyCompleted =>
        /\ Has(last.resp.result, "report")
        /\ last.resp.result.report = researches[0][last.params.researchId].report

\* C12: a step in which a tool takes a report call on a research of its
\* changes no research; it ends the call with the error "Research is not
\* yet completed" if the research is not completed, and otherwise with the
\* stored report and a duration of (endTime - startTime) / 1000.
C12_ReportOnlyWhenCompleted ==
    [][\A via \in Vias, params \in OtherRequests :
           (/\ Dispatched(via, params, "report")
            /\ HasResearch(via, params)
            /\ Takes(via, params))
           => LET research == StoreOf(via)[params.researchId]
              IN  /\ researches' = researches
                  /\ last' # None
                  /\ IF research.status # "completed"
                     THEN last'.resp = Failure("Research is not yet completed")
                     ELSE /\ Has(last'.resp, "result")
                          /\ last'.resp.result.report = research.report
                          /\ last'.resp.result.duration.num * MillisecondsPerSecond
                                 = (research.endTime - research.startTime)
                                       * last'.resp.result.duration.den]_vars

\* a report call has been answered with the report of a research that took
\* one tick of the clock
C12_Witness ==
    /\ last # None
    /\ ActionOf(last.params) = "report"
    /\ Has(last.resp, "result")
    /\ last.resp.result.report = researches[0][last.params.researchId].report
    /\ last.resp.result.duration = [num |-> 1, den |-> MillisecondsPerSecond]

\* C13: a step in which a tool takes a status, continue or report call with
\* a researchId that no start call has returned ends the call with the
\* not-found error and leaves every Map as it is.
C13_UnknownIdIsNotFound ==
    [][\A via \in Vias, params \in OtherRequests :
           (/\ ActionOf(params) \in {"status", "continue", "report"}
            /\ Has(params, "researchId")
            /\ params.researchId = UnknownId
            /\ Takes(via, params))
           => /\ last' # None
              /\ last'.resp = Failure("Research not found")
              /\ researches' = researches]_vars

\* a continue call with an unknown id has been answered while a research
\* exists
C13_Witness ==
    /\ last # None
    /\ ActionOf(last.params) = "continue"
    /\ Has(last.params, "researchId")
    /\ last.params.researchId = UnknownId
    /\ last.resp = Failure("Research not found")
    /\ DOMAIN researches[0] # {}

\* C14: in the step in which start returns successfully, no other research
\* of any Map has the id of the new one, the answer gives status searching,
\* and the research left in the registered tool's Map has status searching,
\* one step, of type question_analysis, and pending sub-questions whose
\* texts are, in order, those analyzeQuestion produced.
C14_StartLeavesFreshSearchingSession ==
    [][\A call \in calls :
           startResearchResume(call) =>
               /\ \A s \in Sessions :
                      s # <<call.tool, call.researchId>> => s[2] # call.researchId
               /\ last'.resp.result.status = "searching"
               /\ call.tool = 0 =>
                      LET research == researches'[0][call.researchId]
                          produced == analyzeQuestion(call.params.query)
                      IN  /\ research.status = "searching"
                          /\ Len(research.steps) = 1
                          /\ research.steps[1].type = "question_analysis"
                          /\ Len(research.subQuestions) <= Len(produced)
                          /\ \A k \in 1..Len(research.subQuestions) :
                                 /\ research.subQuestions[k].status = "pending"
                                 /\ research.subQuestions[k].question = produced[k]]_vars

\* the second start has returned while the first research, which has moved
\* on, is in the same Map
C14_Witness ==
    /\ last # None
    /\ ActionOf(last.params) = "start"
    /\ Has(last.resp, "result")
    /\ last.resp.result.researchId = 2
    /\ DOMAIN researches[0] = {1, 2}
    /\ Len(researches[0][1].steps) > 1
    /\ Len(researches[0][2].subQuestions) = 2

\* C15: a step in which a tool takes a start call whose query is missing or
\* empty ends the call with an error response and creates no research.
C15_StartWithoutQueryIsRejected ==
    [][\A via \in Vias, params \in StartRequests :
           (~Truthy(params, "query") /\ Takes(via, params))
           => /\ last' # None
              /\ Has(last'.resp, "status")
              /\ last'.resp.status = "error"
              /\ researches' = researches]_vars

\* C16: the sub-questions a start call returns are at most
\* min(maxSubQuestions, 10), with maxSubQuestions counting as 5 when omitted.
C16_AtMostMaxSubQuestions ==
    (/\ last # None
     /\ ActionOf(last.params) = "start"
     /\ Has(last.resp, "result"))
    => Len(last.resp.result.subQuestions)
           <= Min(IF Has(last.params, "maxSubQuestions")
                  THEN last.params.maxSubQuestions
                  ELSE DefaultMaxSubQuestions,
                  MaxSubQuestionsCap)

\* C17: a step in which a tool takes a status or report call changes no
\* research of any Map.
C17_StatusAndReportReadOnly ==
    [][\A via \in Vias, params \in OtherRequests :
           (/\ ActionOf(params) \in {"status", "report"}
            /\ Takes(via, params))
           => researches' = researches]_vars

\* a status call has been answered on a research that has a continue call
\* in flight
C17_Witness ==
    /\ last # None
    /\ ActionOf(last.params) = "status"
    /\ Has(last.resp, "result")
    /\ last.resp.result.status = "searching"
    /\ \E k \in 1..Len(last.resp.result.subQuestions) :
           last.resp.result.subQuestions[k].status = "in-progress"
    /\ ContinuesInFlight(last.params.researchId) # {}

\* C18: no step shortens the step log of a research, and the id, type and
\* timestamp of every step already in it stay what they were.
C18_StepLogOnlyGrows ==
    [][\A s \in Sessions :
           s[2] \in DOMAIN researches'[s[1]] =>
               LET old == Session(s).steps
                   new == researches'[s[1]][s[2]].steps
               IN  /\ Len(new) >= Len(old)
                   /\ \A k \in 1..Len(old) :
                          /\ new[k].id = old[k].id
                          /\ new[k].type = old[k].type
                          /\ new[k].timestamp = old[k].timestamp]_vars

\* a completed research whose log holds steps of two different times
C18_Witness ==
    \E s \in Sessions :
        /\ IsCompleted(Session(s))
        /\ Len(Session(s).steps) >= 4
        /\ Session(s).steps[Len(Session(s).steps)].timestamp
               > Session(s).steps[1].timestamp

\* the ids and texts of the sub-questions of a research, in order
Questions(research) ==
    [k \in 1..Len(research.subQuestions) |->
        <<research.subQuestions[k].id, research.subQuestions[k].question>>]

\* C19: once start has set the sub-questions of a research (its status has
\* left planning), no step changes their ids, texts, number or order.
C19_SubQuestionsFixed ==
    [][\A s \in Sessions :
           (Session(s).status # "planning" /\ s[2] \in DOMAIN researches'[s[1]])
           => Questions(researches'[s[1]][s[2]]) = Questions(Session(s))]_vars

\* a completed research whose two sub-questions both went through search and
\* analysis
C19_Witness ==
    \E s \in Sessions :
        /\ IsCompleted(Session(s))
        /\ Len(Session(s).subQuestions) = 2
        /\ \A k \in 1..2 : Has(Session(s).subQuestions[k], "analysis")

\* C20: every research a step changes, creates or drops is the research of
\* the invocation that takes the step.
C20_OtherSessionsUntouched ==
    [][\A s \in Sessions \cup Sessions' :
           (\/ s \notin Sessions
            \/ s \notin Sessions'
            \/ researches'[s[1]][s[2]] # Session(s))
           => \E call \in (calls \ calls') \cup (calls' \ calls) :
                  call.tool = s[1] /\ call.researchId = s[2]]_vars

\* two researches in one Map: one completed, the other with a continue call
\* in flight
C20_Witness ==
    /\ DOMAIN researches[0] = {1, 2}
    /\ \E a, b \in {1, 2} :
           /\ a # b
           /\ IsCompleted(researches[0][a])
           /\ ContinuesInFlight(b) # {}
           /\ WithStatus(researches[0][b].subQuestions, "in-progress") # {}

\* a sub-question synthesizeReport can use: completed, with a non-empty
\* analysis
Usable(sq) == sq.status = "completed" /\ Has(sq, "analysis") /\ sq.analysis # <<>>

\* synthesizeReport has been called on its own and has returned
SynthesizeReportReturned == pure.fn = "synthesizeReport" /\ Has(pure, "returned")

InProgressPlaceholder(mainQuestion) ==
    [kind |-> "Research is still in progress for question", question |-> mainQuestion]

\* C21 as stated: for a list with no usable sub-question, the empty list
\* included, synthesizeReport returns the in-progress placeholder.
C21_NoneUsableGivesInProgress ==
    (/\ SynthesizeReportReturned
     /\ \A k \in 1..Len(pure.subQuestions) : ~Usable(pure.subQuestions[k]))
    => pure.returned = InProgressPlaceholder(pure.mainQuestion)

\* C21 amended: for a non-empty list with no usable sub-question
\* synthesizeReport returns the in-progress placeholder, and for the empty
\* list the no-data message.
C21_NoneUsableGivesPlaceholder ==
    (/\ SynthesizeReportReturned
     /\ \A k \in 1..Len(pure.subQuestions) : ~Usable(pure.subQuestions[k]))
    => pure.returned =
           IF pure.subQuestions = <<>>
           THEN [kind |-> "No research data available for question",
                 question |-> pure.mainQuestion]
           ELSE InProgressPlaceholder(pure.mainQuestion)

\* synthesizeReport has returned the in-progress placeholder for two
\* completed sub-questions, one without analysis and one with an empty one
C21_Witness ==
    /\ SynthesizeReportReturned
    /\ Len(pure.subQuestions) = 2
    /\ pure.subQuestions[1].status = "completed"
    /\ ~Has(pure.subQuestions[1], "analysis")
    /\ pure.subQuestions[2].status = "completed"
    /\ Has(pure.subQuestions[2], "analysis")
    /\ pure.returned = InProgressPlaceholder(pure.mainQuestion)

\* the index of the first entry of a sequence with the given url
FirstWith(results, url) ==
    CHOOSE i \in 1..Len(results) :
        results[i].url = url /\ \A j \in 1..(i - 1) : results[j].url # url

\* C22: for a list with a usable sub-question, synthesizeReport returns a
\* report with one section per usable sub-question, in stored order, and a
\* Sources list holding every url of their search results once, in the order
\* in which the urls first occur.
C22_OneSectionEachAndDistinctSources ==
    (/\ SynthesizeReportReturned
     /\ \E k \in 1..Len(pure.subQuestions) : Usable(pure.subQuestions[k]))
    => LET usable == SelectSeq(pure.subQuestions, Usable)
           found == AllResults(usable)
           sources == pure.returned.sources
       IN  /\ pure.returned.kind = "Research Report"
           /\ Len(pure.returned.sections) = Len(usable)
           /\ \A k \in 1..Len(usable) :
                  /\ pure.returned.sections[k].title
                         = StripQuestionMarks(usable[k].question)
                  /\ pure.returned.sections[k].body = usable[k].analysis
           /\ {sources[i].url : i \in 1..Len(sources)}
                  = {found[i].url : i \in 1..Len(found)}
           /\ \A i, j \in 1..Len(sources) :
                  i < j => /\ sources[i].url # sources[j].url
                           /\ FirstWith(found, sources[i].url)
                                  < FirstWith(found, sources[j].url)

\* a report of two sections whose five search results have three urls
C22_Witness ==
    /\ SynthesizeReportReturned
    /\ pure.returned.kind = "Research Report"
    /\ Len(pure.returned.sections) = 2
    /\ Len(AllResults(SelectSeq(pure.subQuestions, Usable))) = 5
    /\ Len(pure.returned.sources) = 3

\* calculateRelevance has been called on its own and has returned
CalculateRelevanceReturned == pure.fn = "calculateRelevance" /\ Has(pure, "returned")

\* C23: the score calculateRelevance returns is a fraction between 0 and 1,
\* and it is 0 when every word of the query has at most two characters.
C23_RelevanceInUnitInterval ==
    CalculateRelevanceReturned =>
        /\ pure.returned.den > 0
        /\ pure.returned.num >= 0
        /\ pure.returned.num <= pure.returned.den
        /\ (\A i \in 1..Len(pure.query) : pure.query[i] \in ShortWords \ {"?"})
               => pure.returned.num = 0

\* a score of 1: both words of the query are in the title and in the
\* description
C23_Witness ==
    /\ CalculateRelevanceReturned
    /\ Len(pure.query) = 2
    /\ pure.returned.num = pure.returned.den

\* analyzeQuestion has been called on its own and has returned
AnalyzeQuestionReturned == pure.fn = "analyzeQuestion" /\ Has(pure, "returned")

\* the question has one of the connectors as a word or pair of words
ContainsConnector(question) ==
    \E c \in 1..Len(conjunctions), i \in 1..Len(question) :
        /\ i + Len(conjunctions[c]) - 1 <= Len(question)
        /\ \A j \in 1..Len(conjunctions[c]) :
               Lower(question[i + j - 1]) = conjunctions[c][j]

RECURSIVE Flatten(_)
Flatten(seqs) == IF seqs = <<>> THEN <<>> ELSE Head(seqs) \o Flatten(Tail(seqs))

RECURSIVE IsSubsequence(_, _)
\* the words of a occur in b, in order
IsSubsequence(a, b) ==
    IF a = <<>> THEN TRUE
    ELSE IF b = <<>> THEN FALSE
    ELSE IF Head(a) = Head(b) THEN IsSubsequence(Tail(a), Tail(b))
    ELSE IsSubsequence(a, Tail(b))

\* C24: for a question that contains a connector, analyzeQuestion returns at
\* least two sub-questions, each ending in "?", that are the parts of the
\* question in left-to-right order.
C24_ConnectorSplits ==
    (AnalyzeQuestionReturned /\ ContainsConnector(pure.question))
    => /\ Len(pure.returned) >= 2
       /\ \A k \in 1..Len(pure.returned) :
              /\ pure.returned[k] # <<>>
              /\ pure.returned[k][Len(pure.returned[k])] = "?"
       /\ IsSubsequence(
              Flatten([k \in 1..Len(pure.returned) |->
                          StripQuestionMarks(pure.returned[k])]),
              StripQuestionMarks(pure.question))

C26_WhatIsIsStripped ==
    (AnalyzeQuestionReturned /\ pure.question = WhatIs)
    => /\ extractMainTopic(WhatIs) = <<"quantum", "computing">>
       /\ Len(pure.returned) = 4
       /\ pure.returned[2] = <<"What", "is", "quantum", "computing", "?">>
       /\ pure.returned[3]
              = <<"What", "are", "the", "key", "features", "of",
                  "quantum", "computing", "?">>

\* the requests this step hands to the search collaborator
Sends ==
    {call \in calls' \ calls : call.pc = "performSearch" /\ call.sent # <<>>}

\* C27: a step in which a tool takes a continue call sends the search
\* collaborator one request, with the text of the first pending sub-question
\* and count 10, if the research is the tool's, is not completed and has a
\* pending sub-question, and none otherwise; a step in which a search fails
\* sends none.
C27_OneSearchPerContinue ==
    [][/\ \A via \in Vias, params \in OtherRequests :
              (Dispatched(via, params, "continue") /\ Takes(via, params))
              => IF /\ HasResearch(via, params)
                    /\ StoreOf(via)[params.researchId].status # "completed"
                    /\ WithStatus(StoreOf(via)[params.researchId].subQuestions,
                                  "pending") # {}
                 THEN LET subQuestions == StoreOf(via)[params.researchId].subQuestions
                          first == CHOOSE k \in WithStatus(subQuestions, "pending") :
                                       \A l \in WithStatus(subQuestions, "pending") :
                                           k <= l
                      IN  /\ Cardinality(Sends) = 1
                          /\ \A call \in Sends :
                                 call.sent = <<[q |-> subQuestions[first].question,
                                                count |-> 10]>>
                 ELSE Sends = {}
       /\ \A call \in calls :
              (\E reply \in Replies : searchFails(call, reply)) => Sends = {}]_vars

\* C28: a step that changes the content of a step of a log changes that of
\* the last step the log has before it.
C28_OnlyLastStepUpdated ==
    [][\A s \in Sessions :
           s[2] \in DOMAIN researches'[s[1]] =>
               LET old == Session(s).steps
                   new == researches'[s[1]][s[2]].steps
               IN  \A k \in 1..Min(Len(old), Len(new)) :
                       new[k].content # old[k].content => k = Len(old)]_vars

\* C29: in every research, every sub-question after a pending one is
\* pending.
C29_PendingIsASuffix ==
    \A s \in Sessions :
        \A k, l \in 1..Len(Session(s).subQuestions) :
            (k < l /\ Session(s).subQuestions[k].status = "pending")
            => Session(s).subQuestions[l].status = "pending"

\* a research whose first sub-question is stuck in progress after a failed
\* search while its second is completed
C29_Witness ==
    \E s \in Sessions :
        /\ Len(Session(s).subQuestions) = 2
        /\ Session(s).subQuestions[1].status = "in-progress"
        /\ Session(s).subQuestions[2].status = "completed"
        /\ ContinuesInFlight(s[2]) = {}

\* C30: no step changes the step log, the sub-questions or the report of a
\* research that is completed.
C30_CompletedIsFrozen ==
    [][\A s \in Sessions :
           (Session(s).status = "completed" /\ s[2] \in DOMAIN researches'[s[1]])
           => /\ researches'[s[1]][s[2]].steps = Session(s).steps
              /\ researches'[s[1]][s[2]].subQuestions = Session(s).subQuestions
              /\ researches'[s[1]][s[2]].report = Session(s).report]_vars

\* the researches of the registered tool whose id a caller was handed
Started == {s \in Sessions : s[1] = 0 /\ s[2] \in KnownIds}

\* C31: with continue calls sent one at a time, a research with N
\* sub-questions for which k continue calls were taken has max(N - k, 0)
\* pending sub-questions, whatever the searches did, and is completed once
\* nothing is running and k > N.
C31_CompletedAfterNPlusOneContinues ==
    \A s \in Started :
        LET N == Len(Session(s).subQuestions)
            k == continues[s[2]]
        IN  /\ Cardinality(WithStatus(Session(s).subQuestions, "pending"))
                   = Max(N - k, 0)
            /\ (Quiescent /\ k >= N + 1) => Session(s).status = "completed"

\* a research of two sub-questions, completed by its third continue call
\* though both searches failed
C31_Witness ==
    \E s \in Started :
        /\ Quiescent
        /\ Len(Session(s).subQuestions) = 2
        /\ continues[s[2]] = 3
        /\ WithStatus(Session(s).subQuestions, "in-progress") = {1, 2}
        /\ Session(s).status = "completed"

\* the invocations of continue that hold a sub-question
Holding(held) == {call \in held : call.pc \in {"performSearch", "analyzeResults"}}

\* C32: no two invocations of continue hold the same sub-question, an
\* invocation selects a sub-question that is pending, and no step changes
\* a sub-question that is completed.
C32_NoSubQuestionTakenTwice ==
    [][/\ \A c1, c2 \in Holding(calls') :
              (/\ c1.tool = c2.tool
               /\ c1.researchId = c2.researchId
               /\ c1.sq = c2.sq) => c1 = c2
       /\ \A call \in calls' \ calls :
              call.pc = "performSearch"
              => researches[call.tool][call.researchId].subQuestions[call.sq].status
                     = "pending"
       /\ \A s \in Sessions :
              s[2] \in DOMAIN researches'[s[1]] =>
                  \A k \in WithStatus(Session(s).subQuestions, "completed") :
                      researches'[s[1]][s[2]].subQuestions[k]
                          = Session(s).subQuestions[k]]_vars

\* two invocations of continue wait for the searches of the two
\* sub-questions of one research
C32_Witness ==
    \E c1, c2 \in calls :
        /\ c1.pc = "performSearch"
        /\ c2.pc = "performSearch"
        /\ c1.tool = c2.tool
        /\ c1.researchId = c2.researchId
        /\ c1.sq # c2.sq

\* C33: a completed sub-question has its search results and a non-empty
\* analysis stored; a pending sub-question has neither.
C33_CompletedHasResultsAndAnalysis ==
    \A s \in Sessions :
        \A k \in 1..Len(Session(s).subQuestions) :
            LET sq == Session(s).subQuestions[k]
            IN  /\ sq.status = "completed"
                       => /\ Has(sq, "searchResults")
                          /\ Has(sq, "analysis")
                          /\ sq.analysis # <<>>
                /\ sq.status = "pending"
                       => ~Has(sq, "searchResults") /\ ~Has(sq, "analysis")

\* a research with a sub-question completed on an empty result list and a
\* pending one
C33_Witness ==
    \E s \in Sessions :
        /\ Len(Session(s).subQuestions) = 2
        /\ Session(s).subQuestions[1].status = "completed"
        /\ Session(s).subQuestions[1].searchResults = <<>>
        /\ Session(s).subQuestions[2].status = "pending"

\* C34: every research whose start succeeded has a sub-question.
C34_AtLeastOneSubQuestion ==
    \A s \in Started : Len(Session(s).subQuestions) >= 1

\* the steps of a log that have the given type
StepsOfType(steps, type) == {k \in 1..Len(steps) : steps[k].type = type}

\* C35: the step log of a research starts with its only question-analysis
\* step and has at most one synthesis step, which is then its last step.
C35_OneSynthesisStepLast ==
    \A s \in Sessions :
        LET steps == Session(s).steps
        IN  /\ StepsOfType(steps, "question_analysis") = {1}
            /\ StepsOfType(steps, "synthesis") \subseteq {Len(steps)}

\* the analysis of an empty result list for the query text
NoResultsFound(question) == [kind |-> "No results found for query", query |-> question]

\* the completed sub-questions of a list whose search found nothing
FoundNothing(subQuestions) ==
    {k \in WithStatus(subQuestions, "completed") :
        /\ Has(subQuestions[k], "searchResults")
        /\ subQuestions[k].searchResults = <<>>}

\* C36: a continue call whose search returned an empty result list ends
\* with a success, its sub-question completed and analysed as "No results
\* found for query" with the sub-question's text, and a report synthesized
\* after that has a section for the sub-question.
C36_EmptyResultsStillComplete ==
    [][/\ \A call \in calls :
              (/\ call.pc = "analyzeResults"
               /\ researches[call.tool][call.researchId]
                      .subQuestions[call.sq].searchResults = <<>>
               /\ analysisResume(call))
              => LET before == researches[call.tool][call.researchId]
                                   .subQuestions[call.sq]
                     after == researches'[call.tool][call.researchId]
                                  .subQuestions[call.sq]
                 IN  /\ last'.resp.status = "success"
                     /\ after.status = "completed"
                     /\ after.analysis = NoResultsFound(before.question)
       /\ \A call \in calls' \ calls :
              call.pc = "synthesizeReport" =>
                  LET subQuestions ==
                          researches[call.tool][call.researchId].subQuestions
                  IN  \A k \in FoundNothing(subQuestions) :
                          \E n \in 1..Len(call.held.sections) :
                              /\ call.held.sections[n].title
                                     = StripQuestionMarks(subQuestions[k].question)
                              /\ call.held.sections[n].body
                                     = NoResultsFound(subQuestions[k].question)]_vars

\* a completed research whose report has a section that says that nothing
\* was found
C36_Witness ==
    \E s \in Sessions :
        /\ Session(s).status = "completed"
        /\ FoundNothing(Session(s).subQuestions) # {}
        /\ Session(s).report.kind = "Research Report"
        /\ \E n \in 1..Len(Session(s).report.sections) :
               Session(s).report.sections[n].body.kind = "No results found for query"

\* performSearch has been called on its own and has returned
PerformSearchReturned == pure.fn = "performSearch" /\ Has(pure, "returned")

\* C37: performSearch returns a result list for every payload, empty for a
\* payload without body, web section or results list and with one entry for
\* each entry of the payload otherwise, and throws only when the request
\* fails, with the message of the failure after "Failed to perform search".
C37_MalformedPayloadIsNoError ==
    PerformSearchReturned =>
        IF pure.reply.kind = "network error"
        THEN pure.returned
                 = [ok |-> FALSE, error |-> "Failed to perform search: network error"]
        ELSE /\ pure.returned.ok
             /\ Len(pure.returned.results)
                    = IF pure.reply.kind = "results" THEN Len(pure.reply.results)
                      ELSE 0

\* what a request to the search collaborator may carry
WithinLimits(request) ==
    /\ request.count >= MinCount
    /\ request.count <= SearchCountCap
    /\ Chars(request.q) <= QueryLimit

\* a search tool has been called and has returned
SearchToolReturned ==
    /\ pure.fn \in {"BraveWebSearchTool.execute", "BraveLocalSearchTool.execute"}
    /\ Has(pure, "returned")

\* C38: every request sent to the search collaborator, by a search tool or
\* by continue, has a count from 1 to 20 and a query of at most 400
\* characters.
C38_SentWithinLimits ==
    /\ \A call \in calls :
           call.pc = "performSearch" =>
               \A i \in 1..Len(call.sent) : WithinLimits(call.sent[i])
    /\ SearchToolReturned =>
           \A i \in 1..Len(pure.returned.sent) : WithinLimits(pure.returned.sent[i])

\* analyzeResults has been called on its own and has returned
AnalyzeResultsReturned == pure.fn = "analyzeResults" /\ Has(pure, "returned")

\* result i of the list comes before result j in descending relevance, ties
\* in the order of the list
Outranks(results, i, j) ==
    LET a == IF Has(results[i], "relevance") THEN results[i].relevance
             ELSE [num |-> 0, den |-> 1]
        b == IF Has(results[j], "relevance") THEN results[j].relevance
             ELSE [num |-> 0, den |-> 1]
    IN  \/ a.num * b.den > b.num * a.den
        \/ a.num * b.den = b.num * a.den /\ i < j

\* C39: for a list of n results, n > 0, analyzeResults lists min(5, n)
\* results and names that count: the result that k - 1 others outrank is
\* listed at place k, for every k up to the count.
C39_TopFiveByRelevance ==
    (AnalyzeResultsReturned /\ pure.results # <<>>)
    => LET results == pure.results
           used == Min(5, Len(results))
           Place(i) == 1 + Cardinality({j \in 1..Len(results) :
                                           j # i /\ Outranks(results, j, i)})
       IN  /\ pure.returned.used = used
           /\ Len(pure.returned.points) = used
           /\ \A i \in 1..Len(results) :
                  Place(i) <= used
                  => pure.returned.points[Place(i)]
                         = [title |-> results[i].title,
                            keyInfo |-> results[i].description,
                            url |-> results[i].url]

\* six results, the first without relevance, the second of relevance 0,
\* the last two of equal relevance: five are used, the first is listed last
\* and the second is left out
C39_Witness ==
    /\ AnalyzeResultsReturned
    /\ Len(pure.results) = 6
    /\ ~Has(pure.results[1], "relevance")
    /\ pure.results[2].url = "u4"
    /\ pure.results[5].url = "u1"
    /\ pure.results[6].url = "u2"
    /\ pure.returned.used = 5
    /\ pure.returned.points[5].url = "u5"
    /\ \A k \in 1..5 : pure.returned.points[k].url # "u4"

====
